---- MODULE Spec2Model ----
(***************************************************************************)
(* Circuit breaker with metrics (src/main.py).                             *)
(*                                                                         *)
(* circuit_breaker_with_metrics(func) wraps one call of func in the        *)
(* CircuitBreaker object of main.py:52-56, records the outcome in the      *)
(* MetricsRecorder rolling window and publishes four Prometheus metrics.   *)
(*                                                                         *)
(* The breaker is the CircuitBreaker object (package circuitbreaker,       *)
(* imported at main.py:6) built at main.py:52-56 and driven at main.py:82  *)
(* (decorate) and main.py:80/95-100 (state).  Its fields are the ones that *)
(* object keeps: the stored state (closed / open; half_open is never       *)
(* stored, it is what the state property answers when the stored state is  *)
(* open and the recovery timeout has run out), the failure counter and the *)
(* time of the last opening.  Neither main.py nor the breaker takes a      *)
(* lock, so each store to a shared field is a step of its own.             *)
(***************************************************************************)
EXTENDS Integers, Sequences, FiniteSets, TLC

\* ------------------------------------------------------------- constants
failure_threshold == 3
recovery_timeout == 5
window_size == 10

\* --------------------------------------------------------------- bounds
MaxTime == 5
MaxSeqTime == 10
MaxCalls == 4
MaxProbes == 2
CallRate == 1
MaxSeqCalls == 6
MaxRecorded == 12

\* Two callers share the breaker: the races of main.py are between one
\* caller's read and another's write, and two callers produce each of them.
Callers == {1, 2}

\* ----------------------------------------------------------- vocabulary
CLOSED == "closed"
OPEN == "open"
HALF_OPEN == "half_open"

\* What the wrapped call does: return, or raise one of the error kinds.
Kinds == {"Success", "Timeout", "BadStatus", "NetworkError", "Other"}
\* An allow-list that counts every httpx error.
expected_exception_all == {"Timeout", "BadStatus", "NetworkError"}

\* expected_exception=(httpx.TimeoutException, httpx.HTTPStatusError)
expected_exception == {"Timeout", "BadStatus"}
\* httpx.HTTPError is the base class of the three httpx kinds.
HTTPError == {"Timeout", "BadStatus", "NetworkError"}

\* The values circuit_breaker_with_metrics returns.
NotPermitted == "Call not permitted by circuit breaker."
CallFailed == "Call failed and was recorded as a failure."
Unexpected == "An unexpected error occurred."
Successful == "Service call successful!"
Raised == "raised"
None == "none"

VARIABLES
    now,              \* the clock (time.monotonic), in seconds
    cb_state,         \* circuit_breaker._state
    cb_failure_count, \* circuit_breaker._failure_count
    cb_opened,        \* circuit_breaker._opened
    call_history,     \* metrics_recorder._call_history
    failure_rate,     \* FAILURE_RATE_GAUGE, as <<numerator, denominator>>
    state_gauge,      \* STATE
    not_permitted,    \* NOT_PERMITTED_CALLS_COUNTER
    pc,               \* where each caller is in circuit_breaker_with_metrics
    kind,             \* what the caller's wrapped call did
    tmp,              \* the caller's read of _failure_count in "+= 1"
    seen,             \* the breaker state the admitted caller found
    result,           \* the value the caller's call returns
    gauge_val,        \* the value the caller is about to set on STATE
    rate_val,         \* the rate the caller is about to set on the gauge
    calls,            \* calls of circuit_breaker_with_metrics so far
    invoked,          \* invocations of the wrapped function so far
    recorded,         \* every outcome recorded so far, oldest first
    \* History variables: they observe the run and are read by no action.
    run,              \* counted failures reported in a row
    run_from_zero,    \* the row started with the breaker closed at count 0
    run_start,        \* the report the row started after
    opens,            \* closed -> open transitions during the row
    probe_failed_at,  \* the time the last half_open call failed, or -1
    scen,             \* the stage reached of the timed scenario, or -1
    clean             \* only successes and short rows of counted failures

vars == <<now, cb_state, cb_failure_count, cb_opened, call_history,
          failure_rate, state_gauge, not_permitted, pc, kind, tmp, seen,
          result, gauge_val, rate_val, calls, invoked, recorded, run,
          run_from_zero, run_start, opens, probe_failed_at, scen, clean>>

breaker == <<cb_state, cb_failure_count, cb_opened>>
metrics == <<call_history, failure_rate, recorded>>
locals == <<pc, kind, tmp, seen, result, gauge_val, rate_val>>
history == <<run, run_from_zero, run_start, opens, probe_failed_at, scen,
             clean>>

\* ------------------------------------------------------- the breaker
\* A state property that answers half_open one second early.
StateEarly == IF cb_state = OPEN /\ now - cb_opened >= recovery_timeout - 1
              THEN HALF_OPEN ELSE cb_state

\* A state property that needs more than the timeout to have passed.
StateLate == IF cb_state = OPEN /\ now - cb_opened > recovery_timeout
             THEN HALF_OPEN ELSE cb_state

\* CircuitBreaker.state: half_open is derived from the clock.
State == IF cb_state = OPEN /\ now - cb_opened >= recovery_timeout
         THEN HALF_OPEN ELSE cb_state

\* A test that holds the breaker open whatever the clock says.
OpenedForever == cb_state = OPEN

\* CircuitBreaker.opened, the test decorate() makes before calling.
Opened == State = OPEN

\* A threshold test that is off by one.
ThresholdPassed(c) == c > failure_threshold

\* __call_failed: if self._failure_count >= self._failure_threshold
ThresholdReached(c) == c >= failure_threshold

\* An opening that stores the time the timeout runs out.
OpenedAhead(t) == now + recovery_timeout

\* An opening time that a failed half_open call does not restart.
OpenedKept(t) == IF seen[t] = HALF_OPEN THEN cb_opened ELSE now

\* __call_failed: self._opened = monotonic()
OpenedAfter(t) == now

\* -------------------------------------------------- the rolling window
RECURSIVE Sum(_)
Sum(s) == IF s = <<>> THEN 0 ELSE Head(s) + Sum(Tail(s))

\* A window that drops the newest entry, not the oldest, when it is full.
DequeAppendNewest(h, x) == IF Len(h) >= window_size
                           THEN Append(SubSeq(h, 1, Len(h) - 1), x)
                           ELSE Append(h, x)

\* deque(maxlen=window_size).append
DequeAppend(h, x) == IF Len(h) >= window_size THEN Append(Tail(h), x)
                     ELSE Append(h, x)

\* MetricsRecorder._update_metrics: the value computed for the gauge
UpdateMetrics(h, old) == IF Len(h) > 0 THEN <<Sum(h), Len(h)>> ELSE old

\* ------------------------------------------------ the except clauses
\* The except clauses without the last one, except Exception.
HandlerNoCatchAll(k) == IF k = "CircuitBreakerError" THEN NotPermitted
                        ELSE IF k \in HTTPError THEN CallFailed
                        ELSE Raised

\* The value returned for an exception of kind k raised in the try block.
Handler(k) == IF k = "CircuitBreakerError" THEN NotPermitted
              ELSE IF k \in HTTPError THEN CallFailed
              ELSE Unexpected

\* An entry that counts only the failures of the except httpx.HTTPError
\* branch.
EntryOnlyHttp(r) == IF r = CallFailed THEN 1 ELSE 0

\* The entry record_success / record_failure appends for a returned value.
Entry(r) == IF r = Successful THEN 0 ELSE 1

\* ---------------------------------------------------------------- Init
Init ==
    /\ now = 0
    /\ cb_state = CLOSED
    /\ cb_failure_count = 0
    /\ cb_opened = 0
    /\ call_history = <<>>
    /\ failure_rate = <<0, 1>>
    /\ state_gauge = 0
    /\ not_permitted = 0
    /\ pc = [t \in Callers |-> "idle"]
    /\ kind = [t \in Callers |-> None]
    /\ tmp = [t \in Callers |-> 0]
    /\ seen = [t \in Callers |-> None]
    /\ result = [t \in Callers |-> None]
    /\ gauge_val = [t \in Callers |-> 0]
    /\ rate_val = [t \in Callers |-> <<0, 1>>]
    /\ calls = 0
    /\ invoked = 0
    /\ recorded = <<>>
    /\ run = 0
    /\ run_from_zero = TRUE
    /\ run_start = "init"
    /\ opens = 0
    /\ probe_failed_at = -1
    /\ scen = 0
    /\ clean = TRUE

\* The state __main__ is in at the end of phase 1 (main.py:109-116): its
\* failure_threshold failing calls have returned and the last of them has
\* just opened the breaker.  The clock counts from the opening.
InitOpen ==
    /\ now = 0
    /\ cb_state = OPEN
    /\ cb_failure_count = failure_threshold
    /\ cb_opened = 0
    /\ call_history = [i \in 1..failure_threshold |-> 1]
    /\ failure_rate = <<failure_threshold, failure_threshold>>
    /\ state_gauge = 1
    /\ not_permitted = 0
    /\ pc = [t \in Callers |-> "idle"]
    /\ kind = [t \in Callers |-> None]
    /\ tmp = [t \in Callers |-> 0]
    /\ seen = [t \in Callers |-> None]
    /\ result = [t \in Callers |-> None]
    /\ gauge_val = [t \in Callers |-> 0]
    /\ rate_val = [t \in Callers |-> <<0, 1>>]
    /\ calls = failure_threshold
    /\ invoked = failure_threshold
    /\ recorded = [i \in 1..failure_threshold |-> 1]
    /\ run = 0
    /\ run_from_zero = FALSE
    /\ run_start = "init"
    /\ opens = 0
    /\ probe_failed_at = -1
    /\ scen = -1
    /\ clean = FALSE

\* ----------------------------------------------------- history updates
\* The timed scenario: counted failures reported at t = 0, 1, 2 (stages
\* 1, 2, 3), a call at t = 3 (stage 4), a call at t = 7 (stage 5) that
\* succeeds at t = 7 (stage 6), then calls that succeed (stages 7, 6, ...).
\* Anything else leaves the scenario (-1).
ScenAdmit == IF scen \in 0..2 THEN scen
             ELSE IF scen = 3 /\ now = 3 THEN 4
             ELSE IF scen = 4 /\ now = 7 THEN 5
             ELSE IF scen = 6 THEN 7
             ELSE -1

ScenFailure == IF scen \in 0..2 /\ now = scen THEN scen + 1 ELSE -1

ScenSuccess == IF scen = 5 /\ now = 7 THEN 6
               ELSE IF scen = 7 THEN 6
               ELSE -1

\* The history variables follow a run of one caller (obs); with callers
\* running concurrently "in a row" means nothing and they stay as they are.

\* A counted failure of caller t has been reported to the breaker.
CountedReported(t, obs) ==
    IF obs
    THEN /\ run' = IF run <= failure_threshold THEN run + 1 ELSE run
         /\ probe_failed_at' = IF seen[t] = HALF_OPEN THEN now ELSE -1
         /\ scen' = ScenFailure
         /\ clean' = (clean /\ run + 1 < failure_threshold)
         /\ UNCHANGED <<run_from_zero, run_start>>
    ELSE UNCHANGED <<run, probe_failed_at, scen, run_from_zero, run_start,
                     clean>>

\* Any other outcome of caller t's call has gone past the breaker.
OtherReported(t, k, obs) ==
    IF obs
    THEN /\ run' = 0
         /\ opens' = 0
         /\ run_from_zero' = (cb_state' = CLOSED /\ cb_failure_count' = 0)
         /\ run_start' = IF k # "Success" THEN "uncounted"
                         ELSE IF seen[t] = HALF_OPEN THEN "probe_success"
                         ELSE "success"
         /\ probe_failed_at' = -1
         /\ scen' = IF k = "Success" THEN ScenSuccess ELSE -1
         /\ clean' = (clean /\ k = "Success")
    ELSE UNCHANGED history

\* ------------------------------------------------------------- actions
\* time.sleep / time passing while a call is in flight
Tick(cap) ==
    /\ now < cap
    /\ now' = now + 1
    /\ UNCHANGED <<breaker, metrics, state_gauge, not_permitted, locals,
                   calls, invoked, history>>

\* A rejection that calls func all the same.
RejectButInvoke(t) ==
    /\ not_permitted' = not_permitted + 1
    /\ result' = [result EXCEPT ![t] = Handler("CircuitBreakerError")]
    /\ pc' = [pc EXCEPT ![t] = "finally"]
    /\ invoked' = invoked + 1
    /\ UNCHANGED seen

\* A rejection that goes on to record an outcome in the window.
RejectAndRecord(t) ==
    /\ not_permitted' = not_permitted + 1
    /\ result' = [result EXCEPT ![t] = Handler("CircuitBreakerError")]
    /\ pc' = [pc EXCEPT ![t] = "record"]
    /\ UNCHANGED <<invoked, seen>>

\* main.py:85-87: the wrapper raised CircuitBreakerError without calling
\* func; the counter is incremented and the message is the value returned.
Reject(t) ==
    /\ not_permitted' = not_permitted + 1
    /\ result' = [result EXCEPT ![t] = Handler("CircuitBreakerError")]
    /\ pc' = [pc EXCEPT ![t] = "finally"]
    /\ UNCHANGED <<invoked, seen>>

\* main.py:82: the wrapper calls func inside the breaker's context.
Invoke(t) ==
    /\ invoked' = invoked + 1
    /\ seen' = [seen EXCEPT ![t] = State]
    /\ pc' = [pc EXCEPT ![t] = "work"]
    /\ UNCHANGED <<not_permitted, result>>

\* main.py:77-82: the call enters and decorate()'s wrapper tests
\* circuit_breaker.opened.
Admit(t, cap, obs) ==
    /\ pc[t] = "idle"
    /\ calls < cap
    /\ calls' = calls + 1
    /\ IF Opened THEN Reject(t) ELSE Invoke(t)
    /\ scen' = IF obs THEN ScenAdmit ELSE scen
    /\ UNCHANGED <<now, breaker, metrics, state_gauge, kind, tmp, gauge_val,
                   rate_val, run, run_from_zero, run_start, opens,
                   probe_failed_at, clean>>

\* func returns or raises and CircuitBreaker.__exit__ begins.  A counted
\* exception: __call_failed loads _failure_count.  A return:
\* __call_succeeded stores _state = closed.  An exception that is not in
\* expected_exception: the breaker either treats the call as succeeded
\* (__exit__ of circuitbreaker 2.x) or is not told at all (1.x); main.py
\* pins no version.
WorkReturns(t, k, obs) ==
    /\ pc[t] = "work"
    /\ kind' = [kind EXCEPT ![t] = k]
    /\ IF k \in expected_exception
       THEN /\ tmp' = [tmp EXCEPT ![t] = cb_failure_count]
            /\ pc' = [pc EXCEPT ![t] = "call_failed"]
            /\ UNCHANGED <<breaker, history>>
       ELSE /\ UNCHANGED tmp
            /\ \/ /\ cb_state' = CLOSED
                  /\ pc' = [pc EXCEPT ![t] = "call_succeeded"]
                  /\ UNCHANGED <<cb_failure_count, cb_opened, history>>
               \/ /\ k # "Success"
                  /\ pc' = [pc EXCEPT ![t] = "record"]
                  /\ UNCHANGED breaker
                  /\ OtherReported(t, k, obs)
    /\ UNCHANGED <<now, metrics, state_gauge, not_permitted, seen, result,
                   gauge_val, rate_val, calls, invoked>>

\* __call_failed: _failure_count += 1 stores, and at the threshold
\* _state = open is stored.
CallFailedStep(t, obs) ==
    /\ pc[t] = "call_failed"
    /\ cb_failure_count' = tmp[t] + 1
    /\ tmp' = [tmp EXCEPT ![t] = 0]
    /\ IF ThresholdReached(cb_failure_count')
       THEN /\ cb_state' = OPEN
            /\ pc' = [pc EXCEPT ![t] = "opening"]
            /\ opens' = IF obs /\ cb_state = CLOSED /\ opens < 2
                        THEN opens + 1 ELSE opens
            /\ UNCHANGED <<run, run_from_zero, run_start, probe_failed_at,
                           scen, clean>>
       ELSE /\ pc' = [pc EXCEPT ![t] = "record"]
            /\ CountedReported(t, obs)
            /\ UNCHANGED <<cb_state, opens>>
    /\ UNCHANGED <<now, cb_opened, metrics, state_gauge, not_permitted, kind,
                   seen, result, gauge_val, rate_val, calls, invoked>>

\* __call_failed: _opened = monotonic()
SetOpened(t, obs) ==
    /\ pc[t] = "opening"
    /\ cb_opened' = OpenedAfter(t)
    /\ pc' = [pc EXCEPT ![t] = "record"]
    /\ CountedReported(t, obs)
    /\ UNCHANGED <<now, cb_state, cb_failure_count, metrics, state_gauge,
                   not_permitted, kind, tmp, seen, result, gauge_val,
                   rate_val, calls, invoked, opens>>

\* A __call_succeeded that leaves the failure counter as it is.
CallSucceededNoReset(t, obs) ==
    /\ pc[t] = "call_succeeded"
    /\ pc' = [pc EXCEPT ![t] = "record"]
    /\ UNCHANGED <<now, breaker, metrics, state_gauge, not_permitted, kind,
                   tmp, seen, result, gauge_val, rate_val, calls, invoked>>
    /\ OtherReported(t, kind[t], obs)

\* __call_succeeded: _failure_count = 0
CallSucceededStep(t, obs) ==
    /\ pc[t] = "call_succeeded"
    /\ cb_failure_count' = 0
    /\ pc' = [pc EXCEPT ![t] = "record"]
    /\ UNCHANGED <<now, cb_state, cb_opened, metrics, state_gauge,
                   not_permitted, kind, tmp, seen, result, gauge_val,
                   rate_val, calls, invoked>>
    /\ OtherReported(t, kind[t], obs)

\* main.py:83 / 88-93: the value to return is fixed and record_success or
\* record_failure appends to the window.
Record(t) ==
    /\ pc[t] = "record"
    /\ LET r == IF kind[t] = "Success" THEN Successful ELSE Handler(kind[t])
       IN /\ result' = [result EXCEPT ![t] = r]
          /\ call_history' = DequeAppend(call_history, Entry(r))
          /\ recorded' = IF Len(recorded) < MaxRecorded
                         THEN Append(recorded, Entry(r)) ELSE recorded
    /\ pc' = [pc EXCEPT ![t] = "update_metrics"]
    /\ UNCHANGED <<now, breaker, failure_rate, state_gauge, not_permitted,
                   kind, tmp, seen, gauge_val, rate_val, calls, invoked,
                   history>>

\* MetricsRecorder._update_metrics:
\* failure_rate = sum(self._call_history) / len(self._call_history)
UpdateMetricsStep(t) ==
    /\ pc[t] = "update_metrics"
    /\ rate_val' = [rate_val EXCEPT
                       ![t] = UpdateMetrics(call_history, failure_rate)]
    /\ pc' = [pc EXCEPT ![t] = "set_rate"]
    /\ kind' = [kind EXCEPT ![t] = None]
    /\ seen' = [seen EXCEPT ![t] = None]
    /\ UNCHANGED <<now, breaker, metrics, state_gauge, not_permitted, tmp,
                   result, gauge_val, calls, invoked, history>>

\* MetricsRecorder._update_metrics: FAILURE_RATE_GAUGE.set(failure_rate)
SetRate(t) ==
    /\ pc[t] = "set_rate"
    /\ failure_rate' = rate_val[t]
    /\ rate_val' = [rate_val EXCEPT ![t] = <<0, 1>>]
    /\ pc' = [pc EXCEPT ![t] = "finally"]
    /\ UNCHANGED <<now, breaker, call_history, recorded, state_gauge,
                   not_permitted, kind, tmp, seen, result, gauge_val, calls,
                   invoked, history>>

\* finally: if circuit_breaker.state == "closed"
Finally(t) ==
    /\ pc[t] = "finally"
    /\ IF State = CLOSED
       THEN /\ gauge_val' = [gauge_val EXCEPT ![t] = 0]
            /\ pc' = [pc EXCEPT ![t] = "set_state"]
       ELSE /\ pc' = [pc EXCEPT ![t] = "finally_elif"]
            /\ UNCHANGED gauge_val
    /\ UNCHANGED <<now, breaker, metrics, state_gauge, not_permitted, kind,
                   tmp, seen, result, rate_val, calls, invoked, history>>

\* finally: elif circuit_breaker.state == "open" ... else
FinallyElif(t) ==
    /\ pc[t] = "finally_elif"
    /\ gauge_val' = [gauge_val EXCEPT ![t] = IF State = OPEN THEN 1 ELSE 2]
    /\ pc' = [pc EXCEPT ![t] = "set_state"]
    /\ UNCHANGED <<now, breaker, metrics, state_gauge, not_permitted, kind,
                   tmp, seen, result, rate_val, calls, invoked, history>>

\* STATE.set(...) and the call returns
SetState(t) ==
    /\ pc[t] = "set_state"
    /\ state_gauge' = gauge_val[t]
    /\ pc' = [pc EXCEPT ![t] = "idle"]
    /\ result' = [result EXCEPT ![t] = None]
    /\ gauge_val' = [gauge_val EXCEPT ![t] = 0]
    /\ UNCHANGED <<now, breaker, metrics, not_permitted, kind, tmp, seen,
                   rate_val, calls, invoked, history>>

\* Callers call circuit_breaker_with_metrics concurrently.
Next ==
    \/ Tick(MaxTime)
    \/ \E t \in Callers : Admit(t, MaxCalls, FALSE)
    \/ \E t \in Callers, k \in Kinds : WorkReturns(t, k, FALSE)
    \/ \E t \in Callers : CallFailedStep(t, FALSE)
    \/ \E t \in Callers : SetOpened(t, FALSE)
    \/ \E t \in Callers : CallSucceededStep(t, FALSE)
    \/ \E t \in Callers : Record(t)
    \/ \E t \in Callers : UpdateMetricsStep(t)
    \/ \E t \in Callers : SetRate(t)
    \/ \E t \in Callers : Finally(t)
    \/ \E t \in Callers : FinallyElif(t)
    \/ \E t \in Callers : SetState(t)

Spec == Init /\ [][Next]_vars

\* One caller, as in __main__ (main.py:107-136).
NextSeq ==
    \/ Tick(MaxSeqTime)
    \/ Admit(1, MaxSeqCalls, TRUE)
    \/ \E k \in Kinds : WorkReturns(1, k, TRUE)
    \/ CallFailedStep(1, TRUE)
    \/ SetOpened(1, TRUE)
    \/ CallSucceededStep(1, TRUE)
    \/ Record(1)
    \/ UpdateMetricsStep(1)
    \/ SetRate(1)
    \/ Finally(1)
    \/ FinallyElif(1)
    \/ SetState(1)

SpecSeq == Init /\ [][NextSeq]_vars

\* Concurrent callers of a breaker that has just opened: the calls that
\* wait out recovery_timeout and probe.
NextOpen ==
    \/ Tick(MaxTime)
    \/ \E t \in Callers : Admit(t, failure_threshold + MaxProbes, FALSE)
    \/ \E t \in Callers, k \in Kinds : WorkReturns(t, k, FALSE)
    \/ \E t \in Callers : CallFailedStep(t, FALSE)
    \/ \E t \in Callers : SetOpened(t, FALSE)
    \/ \E t \in Callers : CallSucceededStep(t, FALSE)
    \/ \E t \in Callers : Record(t)
    \/ \E t \in Callers : UpdateMetricsStep(t)
    \/ \E t \in Callers : SetRate(t)
    \/ \E t \in Callers : Finally(t)
    \/ \E t \in Callers : FinallyElif(t)
    \/ \E t \in Callers : SetState(t)

SpecOpen == InitOpen /\ [][NextOpen]_vars

\* Concurrent callers whose func raises a counted failure on every call.
NextFail ==
    \/ Tick(MaxTime)
    \/ \E t \in Callers : Admit(t, MaxCalls, FALSE)
    \/ \E t \in Callers, k \in expected_exception : WorkReturns(t, k, FALSE)
    \/ \E t \in Callers : CallFailedStep(t, FALSE)
    \/ \E t \in Callers : SetOpened(t, FALSE)
    \/ \E t \in Callers : Record(t)
    \/ \E t \in Callers : UpdateMetricsStep(t)
    \/ \E t \in Callers : SetRate(t)
    \/ \E t \in Callers : Finally(t)
    \/ \E t \in Callers : FinallyElif(t)
    \/ \E t \in Callers : SetState(t)

SpecFail == Init /\ [][NextFail]_vars

\* Callers of a breaker that has just opened, as in phases 2 to 4 of
\* __main__ (main.py:117-136): func succeeds whenever it is called, and the
\* callers pace their calls, CallRate calls for each second that has begun.
CallerStep(t) ==
    \/ Admit(t, failure_threshold + (now + 1) * CallRate, FALSE)
    \/ WorkReturns(t, "Success", FALSE)
    \/ CallSucceededStep(t, FALSE)
    \/ Record(t)
    \/ UpdateMetricsStep(t)
    \/ SetRate(t)
    \/ Finally(t)
    \/ FinallyElif(t)
    \/ SetState(t)

NextLive ==
    \/ Tick(MaxTime)
    \/ \E t \in Callers : CallerStep(t)

\* The clock goes on and every caller goes on: it finishes the call it is
\* in and calls again.
SpecLive ==
    /\ InitOpen
    /\ [][NextLive]_vars
    /\ WF_vars(Tick(MaxTime))
    /\ \A t \in Callers : WF_vars(CallerStep(t))

\* MetricsRecorder.record_success / record_failure called on their own.
RecordOutcome(x) ==
    /\ Len(recorded) < MaxRecorded
    /\ call_history' = DequeAppend(call_history, x)
    /\ failure_rate' = UpdateMetrics(call_history', failure_rate)
    /\ recorded' = Append(recorded, x)
    /\ UNCHANGED <<now, breaker, state_gauge, not_permitted, locals, calls,
                   invoked, history>>

record_success == RecordOutcome(0)

record_failure == RecordOutcome(1)

NextTracker == record_success \/ record_failure

SpecTracker == Init /\ [][NextTracker]_vars

\* =========================================================== properties
\* No caller is in the middle of reporting an outcome to the breaker.
Quiet == \A t \in Callers : pc[t] \notin {"call_failed", "opening",
                                          "call_succeeded"}

Failure == {CallFailed, Unexpected}
Uncounted == {"NetworkError", "Other"}

\* C1: one caller; while a row of counted failures that started with the
\* breaker closed at count 0 is shorter than failure_threshold, the breaker
\* is closed, has not opened and no call is rejected; when the row reaches
\* failure_threshold the breaker is open and has opened exactly once.
C1_ThresholdOpensOnce ==
    run_from_zero =>
        /\ run < failure_threshold =>
              /\ \A t \in Callers : result[t] # NotPermitted
              /\ Quiet => cb_state = CLOSED /\ State = CLOSED /\ opens = 0
        /\ run = failure_threshold /\ Quiet =>
              cb_state = OPEN /\ opens = 1

C1_Witness ==
    /\ run_from_zero /\ run = failure_threshold /\ Quiet
    /\ State = OPEN /\ opens = 1
    /\ calls = failure_threshold /\ invoked = failure_threshold

\* C2: a call that enters while the stored state is open and less than
\* recovery_timeout has passed since the opening is rejected: it returns
\* the not-permitted value, func is not invoked and the breaker's fields are
\* left as they were; this for either caller and any number of attempts.
C2_OpenRejects ==
    [][\A t \in Callers :
          (/\ pc[t] = "idle" /\ pc'[t] # "idle"
           /\ cb_state = OPEN /\ now - cb_opened < recovery_timeout)
          => /\ result'[t] = NotPermitted
             /\ pc'[t] = "finally"
             /\ invoked' = invoked
             /\ not_permitted' = not_permitted + 1
             /\ cb_state' = OPEN /\ cb_opened' = cb_opened]_vars

C2_Witness ==
    /\ cb_state = OPEN /\ now - cb_opened = recovery_timeout - 1
    /\ not_permitted = 1
    /\ \E t \in Callers : pc[t] = "finally" /\ result[t] = NotPermitted

\* C3: at most one call admitted in half_open is in flight (admitted, its
\* outcome not yet reported to the breaker) at any time.
C3_SingleProbe ==
    Cardinality({t \in Callers : pc[t] = "work" /\ seen[t] = HALF_OPEN}) <= 1

\* C4: one caller; after a call admitted in half_open succeeded, and while
\* fewer than failure_threshold counted failures have followed it, the
\* breaker is closed and its failure counter equals the number of those
\* failures (0 right after the success).
C4_ProbeSuccessCloses ==
    (Quiet /\ run_start = "probe_success" /\ run < failure_threshold)
    => /\ cb_state = CLOSED /\ State = CLOSED
       /\ cb_failure_count = run

C4_Witness ==
    /\ Quiet /\ run_start = "probe_success"
    /\ run = failure_threshold - 1
    /\ State = CLOSED
    /\ \A t \in Callers : pc[t] = "idle"

\* C5: one caller; once a call admitted in half_open has failed with a
\* counted failure, the breaker is open with its opening time equal to the
\* time of that failure, and every call that enters less than
\* recovery_timeout after that failure is rejected.
C5_ProbeFailureReopens ==
    /\ [](probe_failed_at >= 0 /\ Quiet
            => cb_state = OPEN /\ cb_opened = probe_failed_at)
    /\ [][\A t \in Callers :
             (/\ pc[t] = "idle" /\ pc'[t] # "idle"
              /\ probe_failed_at >= 0
              /\ now - probe_failed_at < recovery_timeout)
             => result'[t] = NotPermitted /\ invoked' = invoked]_vars

C5_Witness ==
    /\ probe_failed_at >= recovery_timeout
    /\ now = probe_failed_at + recovery_timeout - 1
    /\ State = OPEN
    /\ \E t \in Callers : pc[t] = "finally" /\ result[t] = NotPermitted

\* C6: the number of invocations of func equals the number of calls minus
\* the number of rejected calls.
C6_InvokedIffAdmitted ==
    invoked = calls - not_permitted

C6_Witness ==
    /\ not_permitted >= 1 /\ invoked >= failure_threshold
    /\ invoked = calls - not_permitted

\* C7: every call ends with one of the returned values and never with an
\* exception; the value is the not-permitted one exactly when the call was
\* rejected at entry, the success value exactly when func was invoked and
\* returned, and a failure value exactly when func was invoked and raised.
C7_ExecuteTotal ==
    /\ [](\A t \in Callers :
            /\ result[t] \in {None, NotPermitted, Successful} \cup Failure
            /\ pc[t] \in {"update_metrics", "set_rate", "finally",
                          "finally_elif", "set_state"} => result[t] # None
            /\ pc[t] \in {"idle", "work", "call_failed", "opening",
                          "call_succeeded", "record"} => result[t] = None)
    /\ [][\A t \in Callers :
            /\ (pc[t] = "idle" /\ pc'[t] # "idle") =>
                  /\ (result'[t] = NotPermitted) = (State = OPEN)
                  /\ (result'[t] = NotPermitted) = (invoked' = invoked)
                  /\ result'[t] \in {NotPermitted, None}
            /\ (pc[t] = "record" /\ pc'[t] # "record") =>
                  /\ (result'[t] = Successful) = (kind[t] = "Success")
                  /\ (result'[t] \in Failure) = (kind[t] # "Success")
            /\ (result[t] # None /\ pc'[t] # "idle") =>
                  result'[t] = result[t]]_vars

C7_Witness ==
    /\ \E t \in Callers : /\ pc[t] = "update_metrics"
                          /\ kind[t] = "Other" /\ result[t] = Unexpected
    /\ \E t \in Callers : pc[t] = "finally" /\ result[t] = CallFailed

\* C8: a step of a call whose func raised a kind outside
\* expected_exception never increases the failure counter, never makes the
\* stored state open and never moves the opening time, and the call's
\* record step appends a 1 to the window.
C8_UncountedDoesNotAdvance ==
    [][\A t \in Callers :
          (kind'[t] \in Uncounted /\ pc'[t] # pc[t]) =>
              /\ cb_failure_count' <= cb_failure_count
              /\ cb_state' = OPEN => cb_state = OPEN
              /\ cb_opened' = cb_opened
              /\ pc[t] = "record" =>
                    /\ recorded' = Append(recorded, 1)
                    /\ call_history' = Append(call_history, 1)]_vars

C8_Witness ==
    /\ cb_state = CLOSED /\ not_permitted = 0
    /\ calls > failure_threshold
    /\ Len(call_history) = calls - 1 /\ Sum(call_history) = calls - 1
    /\ \E t \in Callers : pc[t] = "record" /\ kind[t] \in Uncounted
    /\ \A t \in Callers : pc[t] \in {"idle", "record"}

\* The last n entries of s (all of s when it is shorter).
LastN(s, n) == IF Len(s) <= n THEN s ELSE SubSeq(s, Len(s) - n + 1, Len(s))

Min(a, b) == IF a <= b THEN a ELSE b

\* C9: after n >= 1 recorded outcomes the failure rate is the number of
\* failures among the last min(n, window_size) outcomes over
\* min(n, window_size), and the window holds exactly those outcomes; 3
\* failures then 7 successes give 3/10 and one more success gives 2/10.
C9_RollingRate ==
    LET n == Len(recorded)
        m == Min(n, window_size)
    IN n >= 1 =>
         /\ call_history = LastN(recorded, window_size)
         /\ failure_rate[2] > 0
         /\ failure_rate[1] * m = Sum(LastN(recorded, m)) * failure_rate[2]
         /\ recorded = <<1, 1, 1, 0, 0, 0, 0, 0, 0, 0>>
               => failure_rate[1] * 10 = 3 * failure_rate[2]
         /\ recorded = <<1, 1, 1, 0, 0, 0, 0, 0, 0, 0, 0>>
               => failure_rate[1] * 10 = 2 * failure_rate[2]

C9_Witness ==
    /\ recorded = <<1, 1, 1, 0, 0, 0, 0, 0, 0, 0, 0>>
    /\ call_history = <<1, 1, 0, 0, 0, 0, 0, 0, 0, 0>>
    /\ failure_rate = <<2, 10>>

\* C10: one caller, failure_threshold = 3, recovery_timeout = 5; after
\* counted failures at t = 0, 1, 2 the breaker is open (opened at 2); the
\* call at t = 3 is rejected; the call at t = 7 is admitted in half_open;
\* when it succeeds at t = 7 the breaker is closed with count 0, and the
\* calls after it are admitted.
C10_Scenario ==
    /\ scen = 3 /\ Quiet =>
          /\ cb_state = OPEN /\ cb_opened = 2
          /\ now = 2 => State = OPEN
    /\ scen = 4 =>
          /\ not_permitted = 1
          /\ \A t \in Callers : pc[t] # "idle" => result[t] = NotPermitted
    /\ scen = 5 =>
          \E t \in Callers : /\ pc[t] \in {"work", "call_succeeded",
                                           "call_failed", "opening"}
                             /\ seen[t] = HALF_OPEN
    /\ scen = 6 /\ Quiet =>
          /\ cb_state = CLOSED /\ cb_failure_count = 0
          /\ State = CLOSED
          /\ now >= 7
    /\ scen = 7 =>
          /\ not_permitted = 1
          /\ \E t \in Callers : pc[t] # "idle" /\ result[t] # NotPermitted

C10_Witness ==
    /\ scen = 7
    /\ \E t \in Callers : pc[t] = "work" /\ seen[t] = CLOSED

\* C11: every step of a rejected call leaves the breaker's fields, the
\* window and the failure rate as they were; the call's first step adds
\* exactly one to the not-permitted counter and its later steps leave the
\* counter alone; the counter never decreases and changes at no other step
\* than the first step of a rejected call, one per rejected call.
C11_RejectionFrame ==
    [][/\ \A t \in Callers :
            (pc'[t] # pc[t] /\ NotPermitted \in {result[t], result'[t]}) =>
                /\ UNCHANGED <<breaker, call_history, recorded, failure_rate>>
                /\ not_permitted' = IF pc[t] = "idle" THEN not_permitted + 1
                                                     ELSE not_permitted
       /\ not_permitted' >= not_permitted
       /\ not_permitted' # not_permitted =>
             /\ not_permitted' = not_permitted + 1
             /\ invoked' = invoked /\ calls' = calls + 1
             /\ \E t \in Callers : /\ pc[t] = "idle" /\ pc'[t] = "finally"
                                   /\ result'[t] = NotPermitted]_vars

C11_Witness ==
    /\ \E t \in Callers : pc[t] = "set_state" /\ result[t] = NotPermitted
    /\ not_permitted = 1 /\ calls = failure_threshold + 1
    /\ cb_state = OPEN /\ cb_failure_count = failure_threshold
    /\ call_history = <<1, 1, 1>> /\ failure_rate = <<3, 3>>

\* C12: a step that reports the outcome of a call admitted while the
\* breaker was closed, taken while the breaker is open, leaves _state,
\* _failure_count and _opened as they were; and the stored state goes from
\* open to closed only by a step of a call admitted in half_open.
C12_ReportWhileOpenIsNoOp ==
    [][/\ \A t \in Callers :
            (/\ pc'[t] # pc[t]
             /\ pc[t] \in {"work", "call_failed", "call_succeeded"}
             /\ seen[t] = CLOSED
             /\ State = OPEN)
            => UNCHANGED breaker
       /\ (cb_state = OPEN /\ cb_state' = CLOSED) =>
             \E t \in Callers : pc'[t] # pc[t] /\ seen[t] = HALF_OPEN]_vars

\* The edges of the state diagram.
Edges == {<<CLOSED, OPEN>>, <<OPEN, HALF_OPEN>>, <<HALF_OPEN, CLOSED>>,
          <<HALF_OPEN, OPEN>>}

\* C13: one caller; the state starts closed; a step outside a report to
\* the breaker changes the state along an edge of the diagram or not at
\* all, and changes it from open only when it admits a call after
\* recovery_timeout has run out; a report that completes leaves the state
\* the call was admitted in or follows an edge from it.
C13_FourEdges ==
    /\ State = CLOSED
    /\ [][/\ (Quiet /\ Quiet') =>
              \/ State' = State
              \/ /\ <<State, State'>> \in Edges
                 /\ State = OPEN =>
                       /\ now - cb_opened >= recovery_timeout
                       /\ \E t \in Callers : pc[t] = "idle" /\ pc'[t] = "work"
          /\ \A t \in Callers :
                (/\ pc[t] \in {"call_failed", "opening", "call_succeeded"}
                 /\ pc'[t] = "record")
                => \/ State' = seen[t]
                   \/ <<seen[t], State'>> \in Edges]_vars

\* C14: one caller; as long as every call so far succeeded or failed with
\* a counted failure and no row of counted failures has reached
\* failure_threshold, no call has been rejected and, outside a report, the
\* breaker is closed, has never opened, and its failure counter is the
\* length of the current row (0 after a success).
C14_ShortRunsNeverOpen ==
    clean =>
        /\ not_permitted = 0
        /\ \A t \in Callers : result[t] # NotPermitted
        /\ run < failure_threshold
        /\ Quiet => /\ cb_state = CLOSED /\ State = CLOSED
                    /\ opens = 0
                    /\ cb_failure_count = run

C14_Witness ==
    /\ clean /\ run = failure_threshold - 1
    /\ recorded = <<1, 1, 0, 1, 1>>
    /\ State = CLOSED /\ cb_failure_count = failure_threshold - 1
    /\ \A t \in Callers : pc[t] = "idle"

\* C15: every admitted call fails with a counted failure and none
\* succeeds; once failure_threshold or more calls have been admitted and
\* all calls have returned, the breaker is open.
C15_NoLostFailure ==
    (/\ \A t \in Callers : pc[t] = "idle"
     /\ invoked >= failure_threshold)
    => cb_state = OPEN

\* The value of the state gauge that stands for a state.
Encode(st) == IF st = CLOSED THEN 0 ELSE IF st = OPEN THEN 1 ELSE 2

\* C16: when a call returns, the state gauge holds the encoding of the
\* breaker's state at that moment; so it does when the last of the
\* concurrent calls returns.
C16_GaugeTracksState ==
    [][\A t \in Callers :
          (pc[t] = "set_state" /\ pc'[t] = "idle")
          => state_gauge' = Encode(State')]_vars

\* C17: whenever no caller is between the append of record_success or
\* record_failure and the end of _update_metrics, and the window is not
\* empty, the failure rate is the number of 1 entries of the window over
\* its length, the window is no longer than window_size and the rate is
\* within [0, 1].
C17_RateConsistent ==
    (/\ \A t \in Callers : pc[t] \notin {"update_metrics", "set_rate"}
     /\ Len(call_history) >= 1)
    => /\ failure_rate[2] > 0
       /\ failure_rate[1] * Len(call_history)
             = Sum(call_history) * failure_rate[2]
       /\ Len(call_history) <= window_size
       /\ 0 <= failure_rate[1] /\ failure_rate[1] <= failure_rate[2]

\* Calls that were admitted and have not recorded their outcome yet.
Unrecorded == {t \in Callers : pc[t] \in {"work", "call_failed", "opening",
                                          "call_succeeded", "record"}}

\* C18: the number of recorded outcomes is the number of admitted calls
\* less those still on their way to record; an outcome is recorded only
\* by the record step of an admitted call, after its report to the
\* breaker, one entry per call: 0 if func returned, 1 if it raised
\* (counted or not); the entry is appended to the window too.
C18_OneEntryPerAdmitted ==
    /\ [](Len(recorded) = invoked - Cardinality(Unrecorded))
    /\ [][/\ \A t \in Callers :
                (pc[t] = "record" /\ pc'[t] # "record") =>
                    LET e == IF kind[t] = "Success" THEN 0 ELSE 1
                    IN /\ recorded' = Append(recorded, e)
                       /\ call_history'
                             = LastN(Append(call_history, e), window_size)
          /\ (recorded' # recorded \/ call_history' # call_history) =>
                \E t \in Callers : /\ pc[t] = "record" /\ pc'[t] # "record"
                                   /\ result[t] = None
                                   /\ result'[t] # NotPermitted]_vars

C18_Witness ==
    /\ \A t \in Callers : pc[t] = "idle"
    /\ invoked = MaxCalls /\ Len(recorded) = MaxCalls
    /\ recorded = call_history
    /\ Sum(recorded) = failure_threshold
    /\ cb_state = CLOSED

\* C19 as claimed: _opened holds a time exactly when the state is open.
C19_OpenedIffOpen ==
    (cb_opened \in Int) <=> (State = OPEN)

\* C19 as the code has it: _opened holds a time in every state, from
\* construction on, also while the breaker is closed or half_open; it is
\* never later than the clock; each store of open by a counted failure is
\* followed by that call's store of the current time in _opened, and
\* _opened changes at no other step.
C19_OpenedAlwaysSet ==
    /\ [](cb_opened \in 0..now)
    /\ [][/\ cb_opened' # cb_opened =>
                /\ cb_opened' = now
                /\ \E t \in Callers : pc[t] = "opening" /\ pc'[t] = "record"
          /\ \A t \in Callers :
                /\ (pc[t] = "opening" /\ pc'[t] # "opening")
                      => cb_opened' = now
                /\ (pc'[t] # pc[t] /\ cb_state = CLOSED /\ cb_state' = OPEN)
                      => pc'[t] = "opening"]_vars

C19_Witness ==
    /\ cb_state = CLOSED /\ cb_opened > 0
    /\ cb_failure_count = 0
    /\ \A t \in Callers : pc[t] = "idle"

\* C20: the breaker has opened; the clock goes on, the callers go on
\* calling and func succeeds on every call that is admitted; whenever the
\* state is not closed, it is closed at some later time.
C20_Recovers ==
    (State # CLOSED) ~> (State = CLOSED)

C20_Witness ==
    /\ State = CLOSED /\ cb_failure_count = 0
    /\ now = recovery_timeout
    /\ not_permitted >= recovery_timeout
    /\ \A t \in Callers : pc[t] = "idle"
====
